---- MODULE Spec2Model ----
(***************************************************************************)
(* The NLP agent of apps/research-agent/containers/nlp: the text helpers   *)
(* of utils.py, the four capability operations of NLPProcessor             *)
(* (nlp_agent.py) and the /process handler of main.py.                     *)
(*                                                                         *)
(* A string is a sequence of tokens [s, n]: s names what the token is (a   *)
(* whitespace character, a sentence of the input pool, a model-written     *)
(* summary, the "..." marker) and n is the number of characters of it that *)
(* are present, so that len(), slicing, strip() and re.sub() are computed  *)
(* on character counts, as the code computes them.                         *)
(* Scores, polarities and confidences are in tenths (10 stands for 1.0).   *)
(***************************************************************************)
EXTENDS Integers, Sequences, FiniteSets, TLC

VARIABLES
    nlp,                 \* NLPProcessor.nlp is loaded
    sentiment_analyzer,  \* NLPProcessor.sentiment_analyzer is loaded
    summarizer,          \* NLPProcessor.summarizer is loaded
    pc,                  \* position of process_text: idle, validate, loop, done
    task,                \* the NLPTask of the request: text, operations
    idx,                 \* position of the for loop over task.operations
    result,              \* the NLPResult being filled (a field is <<>> for None)
    response,            \* <<>> until the handler answers, then <<answer>>
    invoked,             \* the NLPProcessor methods called so far, in order
    handed,              \* the texts given so far to a model or a fallback
    raisedBy,            \* <<>>, or <<i>>: the call of operation i raised
    req,                 \* a direct call of one function: its name and arguments
    out                  \* <<>> until the call returns, then <<what it did>>

vars == <<nlp, sentiment_analyzer, summarizer, pc, task, idx, result, response,
          invoked, handed, raisedBy, req, out>>

-----------------------------------------------------------------------------
(* Bounds of the model *)

MaxSents == 6
MaxSumSents == 4
MaxRepeat == 8
MaxReqSents == 2
MaxOps == 2
MaxSpans == 11
MaxPhrases == 12

(* Constants of the program *)

max_chunk_size == 1000
max_entities == 10
summary_max_length == 150
SummarizeMinChars == 50
ModelMinChars == 200
ChunkBudgetCap == 130
ChunkMinLength == 20
MaxChunksSummarized == 3
SentimentInputLimit == 512
EntityInputLimit == 1000
KeywordMinLength == 3
MaxSummarySentences == 3

Min(a, b) == IF a <= b THEN a ELSE b

Range(f) == {f[i] : i \in DOMAIN f}

-----------------------------------------------------------------------------
(* The input pool: three sentences, with their lengths in characters and   *)
(* their words as nltk.word_tokenize gives them.  The characters a         *)
(* sentence has beyond its listed words are words of at most three         *)
(* characters, which extract_keywords drops and no score counts.           *)

SentenceIds == {"S1", "S2", "S3"}

SentLen(id) == CASE id = "S1" -> 30 [] id = "S2" -> 90 [] OTHER -> 600

SentWords(id) ==
    CASE id = "S1" -> <<"Cats", "purr", ".">>
      [] id = "S2" -> <<"the", "cats", "chase", "dogs", ".">>
      [] id = "S3" -> <<"Dogs", "bark", "x-1", ".">>
      [] OTHER -> <<>>

Lower(w) == CASE w = "Cats" -> "cats" [] w = "Dogs" -> "dogs" [] OTHER -> w

IsAlnum(w) == w \notin {".", "x-1"}

WordLen(w) == CASE w = "." -> 1 [] w \in {"the", "x-1"} -> 3 [] w = "chase" -> 5 [] OTHER -> 4

Sp == [s |-> " ", n |-> 1]
Nl == [s |-> "\n", n |-> 1]
Dots == [s |-> "...", n |-> 3]
Sent(id) == [s |-> id, n |-> SentLen(id)]

IsSpace(c) == c.s \in {" ", "\n"}

SentSeqs(k) == UNION {[1..j -> {<<Sent(id)>> : id \in SentenceIds}] : j \in 0..k}

-----------------------------------------------------------------------------
(* Python string operations *)

RECURSIVE StrLen(_)
StrLen(t) == IF t = <<>> THEN 0 ELSE Head(t).n + StrLen(Tail(t))

RECURSIVE LStrip(_)
LStrip(t) == IF t # <<>> /\ IsSpace(Head(t)) THEN LStrip(Tail(t)) ELSE t

RECURSIVE RStrip(_)
RStrip(t) ==
    IF t # <<>> /\ IsSpace(t[Len(t)]) THEN RStrip(SubSeq(t, 1, Len(t) - 1)) ELSE t

Strip(t) == RStrip(LStrip(t))

RECURSIVE Prefix(_, _)
Prefix(t, k) ==
    IF t = <<>> \/ k <= 0 THEN <<>>
    ELSE IF Head(t).n <= k THEN <<Head(t)>> \o Prefix(Tail(t), k - Head(t).n)
    ELSE <<[s |-> Head(t).s, n |-> k]>>

RECURSIVE JoinSp(_)
JoinSp(xs) ==
    IF xs = <<>> THEN <<>>
    ELSE IF Len(xs) = 1 THEN xs[1]
    ELSE xs[1] \o <<Sp>> \o JoinSp(Tail(xs))

RECURSIVE SubWs(_)
SubWs(t) ==
    IF t = <<>> THEN <<>>
    ELSE IF IsSpace(Head(t)) THEN <<Sp>> \o SubWs(LStrip(Tail(t)))
    ELSE <<Head(t)>> \o SubWs(Tail(t))

-----------------------------------------------------------------------------
(* utils.py *)

clean_text(text) == SubWs(Strip(text))

sent_tokenize(text) ==
    LET body == SelectSeq(text, LAMBDA c : ~IsSpace(c))
    IN  [i \in 1..Len(body) |-> <<body[i]>>]

RECURSIVE word_tokenize_lower(_)
word_tokenize_lower(text) ==
    IF text = <<>> THEN <<>>
    ELSE LET ws == IF IsSpace(Head(text)) THEN <<>> ELSE SentWords(Head(text).s)
         IN  [i \in 1..Len(ws) |-> Lower(ws[i])] \o word_tokenize_lower(Tail(text))

ChunkStep(st, sentence, size) ==
    IF StrLen(st.current) + StrLen(sentence) > size
    THEN [chunks  |-> IF st.current # <<>>
                      THEN Append(st.chunks, Strip(st.current))
                      ELSE st.chunks,
          current |-> sentence]
    ELSE [chunks  |-> st.chunks,
          current |-> st.current \o <<Sp>> \o sentence]

RECURSIVE ChunkLoop(_, _, _)
ChunkLoop(st, sentences, size) ==
    IF sentences = <<>> THEN st
    ELSE ChunkLoop(ChunkStep(st, Head(sentences), size), Tail(sentences), size)

\* A chunk_text that forgets the buffer left after the loop.
ChunkFlush_DropsLast(st) == st.chunks

ChunkFlush(st) ==
    IF st.current # <<>> THEN Append(st.chunks, Strip(st.current)) ELSE st.chunks

chunk_text(text, size) ==
    ChunkFlush(ChunkLoop([chunks |-> <<>>, current |-> <<>>], sent_tokenize(text), size))

extract_keywords(text, min_length) ==
    LET words == SelectSeq(word_tokenize_lower(text),
                           LAMBDA w : IsAlnum(w) /\ WordLen(w) > min_length)
    IN  [w \in Range(words) |-> Cardinality({i \in DOMAIN words : words[i] = w})]

-----------------------------------------------------------------------------
(* nlp_agent.py: NLPProcessor._extractive_summary *)

RECURSIVE SumSeq(_)
SumSeq(xs) == IF xs = <<>> THEN 0 ELSE Head(xs) + SumSeq(Tail(xs))

SentenceScore(sentence, word_freq) ==
    LET words == word_tokenize_lower(sentence)
    IN  SumSeq([i \in 1..Len(words) |->
                  IF words[i] \in DOMAIN word_freq THEN word_freq[words[i]] ELSE 0])

\* The keys of the dict sentence_scores, in insertion order.
RECURSIVE DictKeys(_, _)
DictKeys(xs, seen) ==
    IF xs = <<>> THEN <<>>
    ELSE IF Head(xs) \in seen THEN DictKeys(Tail(xs), seen)
    ELSE <<Head(xs)>> \o DictKeys(Tail(xs), seen \cup {Head(xs)})

\* sorted(..., key=score, reverse=True): stable, equal scores keep their order.
RECURSIVE InsertDesc(_, _, _)
InsertDesc(x, ys, score) ==
    IF ys = <<>> THEN <<x>>
    ELSE IF score[Head(ys)] >= score[x] THEN <<Head(ys)>> \o InsertDesc(x, Tail(ys), score)
    ELSE <<x>> \o ys

RECURSIVE SortedDesc(_, _, _)
SortedDesc(xs, acc, score) ==
    IF xs = <<>> THEN acc
    ELSE SortedDesc(Tail(xs), InsertDesc(Head(xs), acc, score), score)

SummarySentences(sentences, text) ==
    LET word_freq       == extract_keywords(text, KeywordMinLength)
        sentence_scores == [s \in Range(sentences) |-> SentenceScore(s, word_freq)]
        top_sentences   == SortedDesc(DictKeys(sentences, {}), <<>>, sentence_scores)
    IN  SubSeq(top_sentences, 1,
               Min(Min(MaxSummarySentences, Len(sentences) \div 2), Len(top_sentences)))

\* The list `summary` of lines 99-102, before it is joined and cut.
SummaryList(text) ==
    LET sentences == sent_tokenize(text)
        chosen    == Range(SummarySentences(sentences, text))
    IN  SelectSeq(sentences, LAMBDA s : s \in chosen)

CutToLength(summary_text, max_length) ==
    IF StrLen(summary_text) > max_length
    THEN Prefix(summary_text, max_length) \o <<Dots>>
    ELSE summary_text

extractive_summary(text, max_length) ==
    IF Len(sent_tokenize(text)) <= 2 THEN text
    ELSE CutToLength(JoinSp(SummaryList(text)), max_length)

-----------------------------------------------------------------------------
(* nlp_agent.py: NLPProcessor.summarize_text.  env.fail_at = j > 0: the    *)
(* summarizer raises on its j-th call; env.fb_raises: the tokenizer of the *)
(* extractive path raises.                                                 *)

ModelSummary(i) == <<[s |-> <<"M1", "M2", "M3">>[i], n |-> 40]>>

ChunkBudget(max_length, chunks) == Min(max_length \div Len(chunks), ChunkBudgetCap)

SummarizerCalls(chunks, max_length, n) ==
    [i \in 1..n |-> [chunk      |-> chunks[i],
                     max_length |-> ChunkBudget(max_length, chunks),
                     min_length |-> ChunkMinLength,
                     of         |-> Len(chunks)]]

ExtractivePath(text, max_length, env, calls, model_raised) ==
    [raised       |-> env.fb_raises,
     value        |-> IF env.fb_raises THEN <<>> ELSE extractive_summary(text, max_length),
     calls        |-> calls,
     model_raised |-> model_raised,
     handed       |-> {[to |-> "summarizer", src |-> text, text |-> calls[i].chunk] :
                          i \in DOMAIN calls}
                      \cup {[to |-> "extractive_summary", src |-> text, text |-> text]}]

\* A summarizer path that keeps the summaries made before the failing chunk.
ModelPath_KeepsPartial(text, max_length, env) ==
    LET chunks == chunk_text(text, max_chunk_size)
        first  == SubSeq(chunks, 1, Min(MaxChunksSummarized, Len(chunks)))
        fb     == ExtractivePath(text, max_length, env,
                                 SummarizerCalls(chunks, max_length,
                                                 Min(env.fail_at, Len(first))), TRUE)
    IN  IF env.fail_at \in 1..Len(first)
        THEN [fb EXCEPT !.value = JoinSp([i \in 1..(env.fail_at - 1) |-> ModelSummary(i)]
                                         \o <<fb.value>>)]
        ELSE [raised       |-> FALSE,
              value        |-> JoinSp([i \in 1..Len(first) |-> ModelSummary(i)]),
              calls        |-> SummarizerCalls(chunks, max_length, Len(first)),
              model_raised |-> FALSE,
              handed       |-> {[to |-> "summarizer", src |-> text, text |-> first[i]] :
                                   i \in 1..Len(first)}]

ModelPath(text, max_length, env) ==
    LET chunks == chunk_text(text, max_chunk_size)
        first  == SubSeq(chunks, 1, Min(MaxChunksSummarized, Len(chunks)))
    IN  IF env.fail_at \in 1..Len(first)
        THEN ExtractivePath(text, max_length, env,
                            SummarizerCalls(chunks, max_length, env.fail_at), TRUE)
        ELSE [raised       |-> FALSE,
              value        |-> JoinSp([i \in 1..Len(first) |-> ModelSummary(i)]),
              calls        |-> SummarizerCalls(chunks, max_length, Len(first)),
              model_raised |-> FALSE,
              handed       |-> {[to |-> "summarizer", src |-> text, text |-> first[i]] :
                                   i \in 1..Len(first)}]

summarize_text(text, max_length, model, env) ==
    IF text = <<>> \/ StrLen(Strip(text)) < SummarizeMinChars
    THEN [raised |-> FALSE, value |-> text, calls |-> <<>>, model_raised |-> FALSE,
          handed |-> {}]
    ELSE LET cleaned == clean_text(text)
         IN  IF model /\ StrLen(cleaned) > ModelMinChars
             THEN ModelPath(cleaned, max_length, env)
             ELSE ExtractivePath(cleaned, max_length, env, <<>>, FALSE)

-----------------------------------------------------------------------------
(* nlp_agent.py: NLPProcessor.analyze_sentiment.  env.results is what the  *)
(* pipeline returns for the text (results[0]: one label and score per      *)
(* class), env.polarity is TextBlob's polarity of it.                      *)

sentiment_label_mapping ==
    [l \in {"LABEL_0", "LABEL_1", "LABEL_2", "NEGATIVE", "NEUTRAL", "POSITIVE"} |->
        CASE l \in {"LABEL_0", "NEGATIVE"} -> "negative"
          [] l \in {"LABEL_1", "NEUTRAL"}  -> "neutral"
          [] OTHER                         -> "positive"]

\* str.lower() of the raw labels the mapping does not hold.
LowerLabel(l) ==
    CASE l = "Negative" -> "negative"
      [] l = "Neutral"  -> "neutral"
      [] l = "MIXED"    -> "mixed"
      [] OTHER          -> l

MappedLabel(raw) ==
    IF raw \in DOMAIN sentiment_label_mapping
    THEN sentiment_label_mapping[raw]
    ELSE LowerLabel(raw)

\* max(results[0], key=score): the first of the entries with the highest score.
BestResult(results) ==
    LET i == CHOOSE i \in DOMAIN results :
                 /\ \A j \in DOMAIN results : results[j].score <= results[i].score
                 /\ \A j \in 1..(i - 1) : results[j].score < results[i].score
    IN  results[i]

\* A scale conversion that leaves a negative label's score positive.
SignedScore_KeepsSign(label, score) == IF label = "neutral" THEN 0 ELSE score

SignedScore(label, score) ==
    IF label = "negative" THEN -score
    ELSE IF label = "neutral" THEN 0
    ELSE score

ModelSentiment(best) ==
    LET label == MappedLabel(best.label)
    IN  [score |-> SignedScore(label, best.score), label |-> label,
         confidence |-> best.score]

PolarityLabel(polarity) ==
    IF polarity > 1 THEN "positive"
    ELSE IF polarity < -1 THEN "negative"
    ELSE "neutral"

Abs(x) == IF x < 0 THEN -x ELSE x

TextBlobSentiment(polarity) ==
    [score |-> polarity, label |-> PolarityLabel(polarity), confidence |-> Abs(polarity)]

NoSentiment == [score |-> 0, label |-> "neutral", confidence |-> 0]

analyze_sentiment(text, model, env) ==
    IF text = <<>>
    THEN [raised |-> FALSE, value |-> NoSentiment, path |-> "empty",
          model_raised |-> FALSE, handed |-> {}]
    ELSE LET given == {[to |-> "sentiment_analyzer", src |-> text,
                        text |-> Prefix(text, SentimentInputLimit)]}
         IN  IF model /\ ~env.model_raises
             THEN [raised |-> FALSE, value |-> ModelSentiment(BestResult(env.results)),
                   path |-> "model", model_raised |-> FALSE, handed |-> given]
             ELSE [raised       |-> env.fb_raises,
                   value        |-> IF env.fb_raises THEN NoSentiment
                                    ELSE TextBlobSentiment(env.polarity),
                   path         |-> "fallback",
                   model_raised |-> model,
                   handed       |-> (IF model THEN given ELSE {})
                                    \cup {[to |-> "TextBlob", src |-> text, text |-> text]}]

-----------------------------------------------------------------------------
(* nlp_agent.py: NLPProcessor.extract_entities.  env.ents is doc.ents of   *)
(* the spaCy model, env.noun_phrases is TextBlob's noun_phrases.           *)

ModelEntities(ents) ==
    [i \in 1..Len(ents) |-> [text |-> ents[i].text, label |-> ents[i].label,
                             confidence |-> 9]]

KeepPhrase(p) == p.len > 2 /\ p.alpha

PhraseEntities(entities, noun_phrases) ==
    LET kept == SelectSeq(noun_phrases, KeepPhrase)
    IN  entities \o [i \in 1..Len(kept) |-> [text |-> kept[i].text, label |-> "NOUN_PHRASE",
                                             confidence |-> 7]]

FallbackEntities(noun_phrases) ==
    LET entities == PhraseEntities(<<>>, noun_phrases)
    IN  SubSeq(entities, 1, Min(max_entities, Len(entities)))

extract_entities(text, model, env) ==
    LET given == {[to |-> "nlp", src |-> text, text |-> Prefix(text, EntityInputLimit)]}
    IN  IF model /\ ~env.model_raises
        THEN [raised |-> FALSE, value |-> ModelEntities(env.ents), path |-> "model",
              model_raised |-> FALSE, handed |-> given]
        ELSE [raised       |-> env.fb_raises,
              value        |-> IF env.fb_raises THEN <<>>
                               ELSE FallbackEntities(env.noun_phrases),
              path         |-> "fallback",
              model_raised |-> model,
              handed       |-> (IF model THEN given ELSE {})
                               \cup {[to |-> "TextBlob", src |-> text, text |-> text]}]

-----------------------------------------------------------------------------
(* nlp_agent.py: NLPProcessor.detect_language *)

FallbackLanguage == [code |-> "en", confidence |-> 5]

detect_language(text, env) ==
    [raised       |-> FALSE,
     value        |-> IF env.detect_raises THEN FallbackLanguage
                      ELSE [code |-> env.detected, confidence |-> 8],
     path         |-> IF env.detect_raises THEN "fallback" ELSE "model",
     model_raised |-> env.detect_raises,
     handed       |-> {[to |-> "TextBlob", src |-> text, text |-> text]}]

-----------------------------------------------------------------------------
(* What the models and libraries may answer, and the texts of the inputs.  *)

\* A text as a client may send it: leading, doubled and trailing whitespace.
RECURSIVE Dirty(_)
Dirty(ss) == IF ss = <<>> THEN <<Nl, Sp>> ELSE <<Nl>> \o Head(ss) \o <<Sp>> \o Dirty(Tail(ss))

CleanTexts(k) == {JoinSp(ss) : ss \in SentSeqs(k)}
RawTexts(k) == CleanTexts(k) \cup {Dirty(ss) : ss \in SentSeqs(k)}

\* Long documents: the longest sentence of the pool, k times.
LongTexts(k) == {JoinSp([i \in 1..j |-> <<Sent("S3")>>]) : j \in 1..k}

ChunkSizes == {20, 50, 120, max_chunk_size}
MaxLengths == {30, summary_max_length, 300}

RawLabels == {"LABEL_0", "LABEL_1", "LABEL_2", "NEGATIVE", "NEUTRAL", "POSITIVE",
              "Negative", "Neutral", "MIXED", "positive"}

SummarizeEnvs(fails) == [fail_at : fails, fb_raises : BOOLEAN]

HasWords(text) == sent_tokenize(text) # <<>>

\* The pipeline answers with two classes, whose scores sum to 1.0; TextBlob's
\* polarity of a text without words is 0.0.
SentimentEnvs(text, labels, scores, polarities) ==
    {[model_raises |-> FALSE, fb_raises |-> FALSE, polarity |-> 0,
      results |-> <<[label |-> x[1], score |-> x[3]], [label |-> x[2], score |-> 10 - x[3]]>>] :
        x \in {y \in labels \X labels \X scores : y[1] # y[2]}}
    \cup {[model_raises |-> TRUE, fb_raises |-> FALSE, polarity |-> p, results |-> <<>>] :
            p \in IF HasWords(text) THEN polarities ELSE {0}}
    \cup {[model_raises |-> TRUE, fb_raises |-> TRUE, polarity |-> 0, results |-> <<>>]}

Spans(k) == [i \in 1..k |-> [text |-> i, label |-> <<"ORG", "PERSON", "GPE">>[(i % 3) + 1]]]

\* k noun phrases; the one at position bad, if any, is one the filter drops.
NounPhrases(k, bad, short) ==
    [i \in 1..k |-> IF i # bad THEN [text |-> i, len |-> 8, alpha |-> TRUE]
                    ELSE IF short THEN [text |-> i, len |-> 2, alpha |-> TRUE]
                    ELSE [text |-> i, len |-> 5, alpha |-> FALSE]]

\* A text without words has no entity and no noun phrase.
EntityEnvs(text, spans, phrases) ==
    {[model_raises |-> FALSE, fb_raises |-> FALSE, ents |-> Spans(k), noun_phrases |-> <<>>] :
        k \in IF HasWords(text) THEN spans ELSE {0}}
    \cup {[model_raises |-> TRUE, fb_raises |-> FALSE, ents |-> <<>>,
           noun_phrases |-> NounPhrases(x[1], x[2], x[3])] :
            x \in {y \in (IF HasWords(text) THEN phrases ELSE {0}) \X (0..MaxPhrases) \X BOOLEAN :
                     y[2] <= y[1]}}
    \cup {[model_raises |-> TRUE, fb_raises |-> TRUE, ents |-> <<>>, noun_phrases |-> <<>>]}

LanguageEnvs == [detect_raises : BOOLEAN, detected : {"en", "fr"}]

-----------------------------------------------------------------------------
(* Direct calls of the functions, one call per behaviour: req holds the    *)
(* function and its arguments, the action applies it.                      *)

NoReq == [op |-> "none", text |-> <<>>, max_length |-> 0, size |-> 0]
NoTask == [text |-> <<>>, operations |-> <<>>]
NLPResult == [summary |-> <<>>, sentiment |-> <<>>, entities |-> <<>>, language |-> <<>>]

Call(op, text, max_length, size) ==
    [op |-> op, text |-> text, max_length |-> max_length, size |-> size]

Text(ss, dirty) == IF dirty THEN Dirty(ss) ELSE JoinSp(ss)

\* The calls a behaviour may start from.
FnRequest(r) ==
    \/ \E ss \in SentSeqs(MaxSents), dirty \in BOOLEAN, m \in ChunkSizes :
         r = Call("chunk_text", Text(ss, dirty), 0, m)
    \/ \E ss \in SentSeqs(MaxSents), l \in MaxLengths :
         r = Call("extractive_summary", JoinSp(ss), l, 0)
    \/ \E ss \in SentSeqs(MaxSumSents), dirty \in BOOLEAN, l \in MaxLengths :
         r = Call("summarize_text", Text(ss, dirty), l, 0)
    \/ \E t \in LongTexts(MaxRepeat) :
         r = Call("summarize_text", t, summary_max_length, 0)
    \/ \E op \in {"analyze_sentiment", "extract_entities", "detect_language"},
          ss \in SentSeqs(1), dirty \in BOOLEAN :
         r = Call(op, Text(ss, dirty), 0, 0)

Idle ==
    /\ pc = "idle"
    /\ task = NoTask
    /\ idx = 0
    /\ result = NLPResult
    /\ response = <<>>
    /\ invoked = <<>>
    /\ handed = {}
    /\ raisedBy = <<>>

\* _initialize_models: each model loads or is left None.
InitFn ==
    /\ Idle
    /\ FnRequest(req)
    /\ out = <<>>
    /\ summarizer \in IF req.op = "summarize_text" THEN BOOLEAN ELSE {FALSE}
    /\ sentiment_analyzer \in IF req.op = "analyze_sentiment" THEN BOOLEAN ELSE {FALSE}
    /\ nlp \in IF req.op = "extract_entities" THEN BOOLEAN ELSE {FALSE}

FnFrame ==
    UNCHANGED <<nlp, sentiment_analyzer, summarizer, pc, task, idx, result, response,
                invoked, handed, raisedBy, req>>

CallChunkText ==
    /\ req.op = "chunk_text" /\ out = <<>>
    /\ out' = <<[chunks |-> chunk_text(req.text, req.size)]>>
    /\ FnFrame

CallExtractiveSummary ==
    /\ req.op = "extractive_summary" /\ out = <<>>
    /\ out' = <<[value   |-> extractive_summary(req.text, req.max_length),
                 summary |-> SummaryList(req.text)]>>
    /\ FnFrame

CallSummarizeText ==
    /\ req.op = "summarize_text" /\ out = <<>>
    /\ \E env \in SummarizeEnvs(0..MaxChunksSummarized) :
         out' = <<[env |-> env, ret |-> summarize_text(req.text, req.max_length, summarizer, env)]>>
    /\ FnFrame

CallAnalyzeSentiment ==
    /\ req.op = "analyze_sentiment" /\ out = <<>>
    /\ \E env \in SentimentEnvs(req.text, RawLabels, 0..10, -10..10) :
         out' = <<[env |-> env, ret |-> analyze_sentiment(req.text, sentiment_analyzer, env)]>>
    /\ FnFrame

CallExtractEntities ==
    /\ req.op = "extract_entities" /\ out = <<>>
    /\ \E env \in EntityEnvs(req.text, 0..MaxSpans, 0..MaxPhrases) :
         out' = <<[env |-> env, ret |-> extract_entities(req.text, nlp, env)]>>
    /\ FnFrame

CallDetectLanguage ==
    /\ req.op = "detect_language" /\ out = <<>>
    /\ \E env \in LanguageEnvs :
         out' = <<[env |-> env, ret |-> detect_language(req.text, env)]>>
    /\ FnFrame

NextFn ==
    \/ CallChunkText
    \/ CallExtractiveSummary
    \/ CallSummarizeText
    \/ CallAnalyzeSentiment
    \/ CallExtractEntities
    \/ CallDetectLanguage

SpecFn == InitFn /\ [][NextFn]_vars

-----------------------------------------------------------------------------
(* main.py: process_text, the handler of POST /process.  One request per   *)
(* behaviour; the handler runs its statements in order.                    *)

OpNames == {"summarize", "sentiment", "entities", "language", "translate"}
Supported == {"summarize", "sentiment", "entities", "language"}

OpSeqs == UNION {[1..k -> OpNames] : k \in 0..MaxOps}

ReqSummarizeEnvs == SummarizeEnvs({0, 1})
ReqSentimentEnvs(text) == SentimentEnvs(text, {"LABEL_0", "POSITIVE"}, {8}, {-5, 1})
ReqEntityEnvs(text) == EntityEnvs(text, {1}, {1})

HTTPException(detail) == [http |-> 400, success |-> FALSE, data |-> <<>>, error |-> detail]
Succeeded(data) == [http |-> 200, success |-> TRUE, data |-> <<data>>, error |-> ""]
Failed == [http |-> 200, success |-> FALSE, data |-> <<>>, error |-> "NLP processing failed"]

\* _initialize_models: each model loads or is left None.
Init ==
    /\ Idle
    /\ req = NoReq
    /\ out = <<>>
    /\ nlp \in BOOLEAN
    /\ sentiment_analyzer \in BOOLEAN
    /\ summarizer \in BOOLEAN

Models == <<nlp, sentiment_analyzer, summarizer>>

Receive ==
    /\ pc = "idle"
    /\ \E text \in RawTexts(MaxReqSents), operations \in OpSeqs :
         task' = [text |-> text, operations |-> operations]
    /\ pc' = "validate"
    /\ UNCHANGED <<Models, idx, result, response, invoked, handed, raisedBy, req, out>>

\* Lines 40-46.
Validate ==
    /\ pc = "validate"
    /\ IF task.text = <<>> \/ Strip(task.text) = <<>>
       THEN /\ response' = <<HTTPException("Text is required")>>
            /\ pc' = "done"
            /\ UNCHANGED <<idx, result>>
       ELSE IF task.operations = <<>>
       THEN /\ response' = <<HTTPException("At least one operation is required")>>
            /\ pc' = "done"
            /\ UNCHANGED <<idx, result>>
       ELSE /\ result' = NLPResult
            /\ idx' = 1
            /\ pc' = "loop"
            /\ UNCHANGED response
    /\ UNCHANGED <<Models, task, invoked, handed, raisedBy, req, out>>

AtOperation(operation) ==
    /\ pc = "loop"
    /\ idx <= Len(task.operations)
    /\ task.operations[idx] = operation

\* The call of one NLPProcessor method returned r, or raised into `except Exception`.
Called(method, r, filled) ==
    /\ invoked' = Append(invoked, method)
    /\ handed' = handed \cup r.handed
    /\ IF r.raised
       THEN /\ response' = <<Failed>>
            /\ raisedBy' = <<idx>>
            /\ pc' = "done"
            /\ UNCHANGED <<idx, result>>
       ELSE /\ result' = filled
            /\ idx' = idx + 1
            /\ UNCHANGED <<response, raisedBy, pc>>
    /\ UNCHANGED <<Models, task, req, out>>

\* Lines 50-51.
Summarize ==
    /\ AtOperation("summarize")
    /\ \E env \in ReqSummarizeEnvs :
         LET r == summarize_text(task.text, summary_max_length, summarizer, env)
         IN  Called("summarize_text", r, [result EXCEPT !.summary = <<r.value>>])

\* Lines 53-59.
Sentiment ==
    /\ AtOperation("sentiment")
    /\ \E env \in ReqSentimentEnvs(task.text) :
         LET r == analyze_sentiment(task.text, sentiment_analyzer, env)
         IN  Called("analyze_sentiment", r, [result EXCEPT !.sentiment = <<r.value>>])

\* Lines 61-69.
Entities ==
    /\ AtOperation("entities")
    /\ \E env \in ReqEntityEnvs(task.text) :
         LET r == extract_entities(task.text, nlp, env)
         IN  Called("extract_entities", r, [result EXCEPT !.entities = <<r.value>>])

\* Lines 71-76.
Language ==
    /\ AtOperation("language")
    /\ \E env \in LanguageEnvs :
         LET r == detect_language(task.text, env)
         IN  Called("detect_language", r, [result EXCEPT !.language = <<r.value>>])

\* Lines 78-82.
UnknownOperation ==
    /\ pc = "loop"
    /\ idx <= Len(task.operations)
    /\ task.operations[idx] \notin Supported
    /\ response' = <<HTTPException("Unknown operation")>>
    /\ pc' = "done"
    /\ UNCHANGED <<Models, task, idx, result, invoked, handed, raisedBy, req, out>>

\* Lines 84-90.
Respond ==
    /\ pc = "loop"
    /\ idx > Len(task.operations)
    /\ response' = <<Succeeded(result)>>
    /\ pc' = "done"
    /\ UNCHANGED <<Models, task, idx, result, invoked, handed, raisedBy, req, out>>

Next ==
    \/ Receive
    \/ Validate
    \/ Summarize
    \/ Sentiment
    \/ Entities
    \/ Language
    \/ UnknownOperation
    \/ Respond

Spec == Init /\ [][Next]_vars

-----------------------------------------------------------------------------
(* Properties of process_text (checked under Spec) *)

Answered == pc = "done" /\ response # <<>>

InvalidRequest ==
    \/ task.text = <<>> \/ Strip(task.text) = <<>>
    \/ task.operations = <<>>
    \/ \E i \in DOMAIN task.operations : task.operations[i] \notin Supported

MethodOf(operation) ==
    CASE operation = "summarize" -> "summarize_text"
      [] operation = "sentiment" -> "analyze_sentiment"
      [] operation = "entities"  -> "extract_entities"
      [] OTHER                   -> "detect_language"

FieldOf(data, operation) ==
    CASE operation = "summarize" -> data.summary
      [] operation = "sentiment" -> data.sentiment
      [] operation = "entities"  -> data.entities
      [] OTHER                   -> data.language

\* C1: a request with a validation error (blank text, no operations, or an
\* unsupported operation name at any position) is answered with the validation
\* error (unless a capability call raised before, which C2 is about), and no
\* NLPProcessor method has been called when it is rejected.
C1_RejectedBeforeAnyCapability ==
    (Answered /\ InvalidRequest) =>
        /\ raisedBy = <<>> => response[1].http = 400
        /\ response[1].http = 400 => invoked = <<>>

\* C2: when the call of one requested capability raises, every other requested
\* capability has still been called and its result is in the response.
C2_FailureLeavesOthers ==
    (Answered /\ ~InvalidRequest /\ raisedBy # <<>>) =>
        \A j \in DOMAIN task.operations :
            task.operations[j] # task.operations[raisedBy[1]] =>
                /\ MethodOf(task.operations[j]) \in Range(invoked)
                /\ response[1].data # <<>>
                /\ FieldOf(response[1].data[1], task.operations[j]) # <<>>

\* C7: every text given to a model or to a fallback algorithm, by any of the
\* four capabilities, is taken from clean_text of the request's text.
C7_OnlyCleanTextHanded ==
    \A h \in handed : h.src = clean_text(task.text)

-----------------------------------------------------------------------------
(* Properties of the functions (checked under SpecFn) *)

Returned(op) == req.op = op /\ out # <<>>

\* C3: the list extract_entities returns is never longer than max_entities,
\* whether the model or the noun-phrase fallback produced it.
C3_EntitiesWithinMaximum ==
    (Returned("extract_entities") /\ ~out[1].ret.raised) =>
        Len(out[1].ret.value) <= max_entities

SignsAgree(r) ==
    /\ r.label = "negative" => r.score <= 0
    /\ r.label = "positive" => r.score >= 0

\* C4 as stated: label and score agree in sign, and a neutral label always
\* comes with score 0.0, on the model path and on the polarity fallback alike.
C4_NeutralMeansZero ==
    (Returned("analyze_sentiment") /\ ~out[1].ret.raised) =>
        /\ SignsAgree(out[1].ret.value)
        /\ out[1].ret.value.label = "neutral" => out[1].ret.value.score = 0

\* C4 amended: label and score agree in sign on every path; a neutral label
\* comes with score 0.0 on the model path (and for empty text), and with the
\* polarity itself, between -0.1 and 0.1, on the polarity fallback.
C4_SignsAgree ==
    (Returned("analyze_sentiment") /\ ~out[1].ret.raised) =>
        LET r == out[1].ret.value
        IN  /\ SignsAgree(r)
            /\ (r.label = "neutral" /\ out[1].ret.path # "fallback") => r.score = 0
            /\ (r.label = "neutral" /\ out[1].ret.path = "fallback") =>
                   (r.score = out[1].env.polarity /\ r.score \in -1..1)

\* The polarity fallback answered neutral with a score that is not 0.0, for a
\* text the loaded model raised on.
C4_Witness ==
    /\ Returned("analyze_sentiment")
    /\ out[1].ret.path = "fallback"
    /\ out[1].ret.model_raised
    /\ out[1].ret.value.label = "neutral"
    /\ out[1].ret.value.score = 1

IsSubsequence(xs, ys) ==
    \E f \in [DOMAIN xs -> DOMAIN ys] :
        /\ \A i \in DOMAIN xs : ys[f[i]] = xs[i]
        /\ \A i, j \in DOMAIN xs : i < j => f[i] < f[j]

\* C5: for a text of N > 2 sentences the summary, before it is cut to length,
\* is exactly min(3, N div 2) of the sentences, in the order of the text.
C5_SelectsTopSentences ==
    (Returned("extractive_summary") /\ Len(sent_tokenize(req.text)) > 2) =>
        LET sentences == sent_tokenize(req.text)
        IN  /\ Len(out[1].summary) = Min(3, Len(sentences) \div 2)
            /\ IsSubsequence(out[1].summary, sentences)

ModelWritten(text) == \E i \in DOMAIN text : text[i].s \in {"M1", "M2", "M3"}

C8_ChunkBudgetInRange ==
    Returned("summarize_text") =>
        /\ Len(out[1].ret.calls) <= 3
        /\ \A i \in DOMAIN out[1].ret.calls :
              LET c == out[1].ret.calls[i]
              IN  /\ c.max_length = Min(req.max_length \div c.of, 130)
                  /\ c.max_length \in 20..130
                  /\ c.max_length >= c.min_length

WholeSentences(chunk) ==
    /\ chunk # <<>>
    /\ chunk = JoinSp(sent_tokenize(chunk))
    /\ \A i \in DOMAIN chunk : IsSpace(chunk[i]) \/ chunk[i].n = SentLen(chunk[i].s)

\* C9: the chunks of chunk_text, joined with single spaces, are the sentences
\* of the text joined with single spaces, every chunk is made of whole
\* sentences; a single sentence gives one chunk whatever its length, and a
\* text without sentences gives no chunk.
C9_ChunksRebuildText ==
    Returned("chunk_text") =>
        LET sentences == sent_tokenize(req.text)
            chunks    == out[1].chunks
        IN  /\ JoinSp(chunks) = JoinSp(sentences)
            /\ \A i \in DOMAIN chunks : WholeSentences(chunks[i])
            /\ Len(sentences) = 1 => Len(chunks) = 1
            /\ sentences = <<>> => chunks = <<>>

\* Several chunks, one of them holding more than one sentence, and one made of
\* a single sentence longer than the maximum size.
C9_Witness ==
    /\ Returned("chunk_text")
    /\ Len(out[1].chunks) >= 2
    /\ \E i \in DOMAIN out[1].chunks : Len(sent_tokenize(out[1].chunks[i])) >= 2
    /\ \E i \in DOMAIN out[1].chunks :
          /\ Len(sent_tokenize(out[1].chunks[i])) = 1
          /\ StrLen(out[1].chunks[i]) > req.size

\* C10: every chunk of two or more sentences is at most the maximum size long,
\* the first chunk and the later ones alike.
C10_ChunksWithinSize ==
    Returned("chunk_text") =>
        \A i \in DOMAIN out[1].chunks :
            Len(sent_tokenize(out[1].chunks[i])) >= 2 => StrLen(out[1].chunks[i]) <= req.size

====
